---- MODULE Spec2Model ----
(***************************************************************************)
(* Model of the TFTP packet codec of doodles526/go-tftp:                   *)
(*   packets/packets.go : the five packet types, Encode, Decode,           *)
(*                        ErrorToPacket                                    *)
(*   errors package     : the seven error kinds and their Error() text     *)
(*                                                                         *)
(* Bytes are integers 0..255; a Go string and the contents of a []byte are *)
(* sequences of bytes.  A Go interface value is a (dynamic type, pointer)  *)
(* pair: it is the nil interface only when its dynamic type is absent.     *)
(* A []byte is a slice: a window of a backing array held in the heap.      *)
(***************************************************************************)
EXTENDS Integers, Sequences, FiniteSets, TLC

VARIABLES op, heap, pktIn, encOut, decOut, errIn, e2pOut

vars == <<op, heap, pktIn, encOut, decOut, errIn, e2pOut>>

(***************************************************************************)
(* Bounds of the model.                                                    *)
(***************************************************************************)
\* longest Filename, Mode, ErrorMessage, Data payload and error context
MaxStr == 2
\* longest datagram handed to Decode
MaxBuf == 7
\* longest datagram in the buffer-reuse specification
MaxRx == 5

\* bytes of the strings, payloads and datagram bodies that are enumerated
BodyBytes == {0, 1, 8, 84}
\* first and second byte of an enumerated datagram (the opcode field)
OpcodeHiBytes == {0, 1}
OpcodeLoBytes == 0..6
\* uint16 values enumerated for BlockNumber and ErrorCode
BlockNumbers == {0, 1, 50, 255, 256, 65535}
ErrorCodes == (0..9) \cup {256, 65535}

SeqsUpTo(S, n) == UNION {[1..k -> S] : k \in 0..n}

Strings == SeqsUpTo(BodyBytes, MaxStr)

(***************************************************************************)
(* packets.go: opcodes                                                     *)
(***************************************************************************)
ReadRequestPacketOpcode == 1
WriteRequestPacketOpcode == 2
DataPacketOpcode == 3
AckPacketOpcode == 4
ErrorPacketOpcode == 5

(***************************************************************************)
(* Go values                                                               *)
(*                                                                         *)
(* Literal message texts of the source are TLA+ strings; strings that      *)
(* carry data (Filename, Mode, ErrorMessage, error context) are sequences  *)
(* of bytes.                                                               *)
(***************************************************************************)
\* the nil error interface
NilError == [kind |-> "nil", Message |-> ""]

\* fmt.Errorf(text): an error outside the errors package
Errorf(text) == [kind |-> "errorString", Message |-> text]

\* errors.ErrorIllegalOperation{Message: text}
ErrorIllegalOperation(text) == [kind |-> "ErrorIllegalOperation", Message |-> text]

\* The backing arrays of the byte slices in play: the caller's Data payload,
\* the array of the bytes.Buffer that Encode allocates, and the datagram
\* buffer handed to Decode.
EmptyHeap == [payload |-> <<>>, out |-> <<>>, rx |-> <<>>]

\* a []byte: a window of len bytes at offset off of a backing array
Slice(arr, off, len) == [arr |-> arr, off |-> off, len |-> len]

\* a nil []byte
NilBytes == Slice("nil", 0, 0)

\* s[n:]
SliceFrom(s, n) == Slice(s.arr, s.off + n, s.len - n)

\* the bytes the slice s denotes in heap h
At(h, s) == IF s.arr = "nil" THEN <<>> ELSE SubSeq(h[s.arr], s.off + 1, s.off + s.len)

\* packet structs; fields a variant lacks hold their zero value
NoFields ==
    [Filename |-> <<>>, Mode |-> <<>>, BlockNumber |-> 0,
     Data |-> NilBytes, ErrorCode |-> 0, ErrorMessage |-> <<>>]

\* the nil Packet interface: no dynamic type
NilPacket == [typ |-> "nil", ptr |-> "nil", val |-> NoFields]

\* a Packet interface holding a nil pointer of type typ
TypedNil(typ) == [typ |-> typ, ptr |-> "nil", val |-> NoFields]

\* a Packet interface holding a pointer of type typ to the struct val
PointerTo(typ, val) == [typ |-> typ, ptr |-> "addr", val |-> val]

\* p == nil for a Packet interface value p
IsNilInterface(p) == p.typ = "nil"

ReadRequestPacket(filename, mode) ==
    PointerTo("*ReadRequestPacket", [NoFields EXCEPT !.Filename = filename, !.Mode = mode])

WriteRequestPacket(filename, mode) ==
    PointerTo("*WriteRequestPacket", [NoFields EXCEPT !.Filename = filename, !.Mode = mode])

DataPacket(blockNumber, data) ==
    PointerTo("*DataPacket", [NoFields EXCEPT !.BlockNumber = blockNumber, !.Data = data])

AckPacket(blockNumber) ==
    PointerTo("*AckPacket", [NoFields EXCEPT !.BlockNumber = blockNumber])

ErrorPacket(errorCode, errorMessage) ==
    PointerTo("*ErrorPacket",
              [NoFields EXCEPT !.ErrorCode = errorCode, !.ErrorMessage = errorMessage])

(***************************************************************************)
(* encoding/binary and bytes.Buffer                                        *)
(***************************************************************************)
\* a variant of BinaryWriteUint16 that writes the low byte first
BinaryWriteUint16LittleEndian(buffer, v) == buffer \o <<v % 256, (v \div 256) % 256>>

\* binary.Write(buffer, binary.BigEndian, uint16(v))
BinaryWriteUint16(buffer, v) == buffer \o <<(v \div 256) % 256, v % 256>>

\* buffer.WriteString(s), buffer.Write(s)
BufferWrite(buffer, s) == buffer \o s

\* buffer.WriteByte(b)
BufferWriteByte(buffer, b) == Append(buffer, b)

\* binary.BigEndian.Uint16(b): b[1] | b[0]<<8
BigEndianUint16(b) == b[1] * 256 + b[2]

\* the index of the first delim in b, 0 when there is none
IndexByte(b, delim) ==
    IF \E i \in 1..Len(b) : b[i] = delim
    THEN CHOOSE i \in 1..Len(b) : b[i] = delim /\ \A j \in 1..(i - 1) : b[j] # delim
    ELSE 0

\* buffer.ReadString(delim): the bytes up to and including the first delim;
\* io.EOF (and everything left) when there is none
BufferReadString(buffer, delim) ==
    LET i == IndexByte(buffer, delim) IN
    IF i = 0
    THEN [str |-> buffer, eof |-> TRUE, rest |-> <<>>]
    ELSE [str |-> SubSeq(buffer, 1, i), eof |-> FALSE,
          rest |-> SubSeq(buffer, i + 1, Len(buffer))]

(***************************************************************************)
(* packets.go: Encode                                                      *)
(* The result is (buffer.Bytes(), err): buf holds the bytes of the         *)
(* bytes.Buffer's array "out" when the call succeeds.                      *)
(***************************************************************************)
EncodeOk(buffer) == [buf |-> Slice("out", 0, Len(buffer)), out |-> buffer, err |-> NilError]

EncodeFail(err) == [buf |-> NilBytes, out |-> <<>>, err |-> err]

WriteRequestPacketEncode(w) ==
    LET b1 == BinaryWriteUint16(<<>>, WriteRequestPacketOpcode)
        b2 == BufferWrite(b1, w.Filename)
        b3 == BufferWriteByte(b2, 0)
        b4 == BufferWrite(b3, w.Mode)
        b5 == BufferWriteByte(b4, 0)
    IN  IF Len(b2) - Len(b1) # Len(w.Filename)
        THEN EncodeFail(Errorf("Length of filename did not match that written to buffer"))
        ELSE IF Len(b4) - Len(b3) # Len(w.Mode)
        THEN EncodeFail(Errorf("Length of mode did not match that written to buffer"))
        ELSE EncodeOk(b5)

ReadRequestPacketEncode(r) ==
    LET b1 == BinaryWriteUint16(<<>>, ReadRequestPacketOpcode)
        b2 == BufferWrite(b1, r.Filename)
        b3 == BufferWriteByte(b2, 0)
        b4 == BufferWrite(b3, r.Mode)
        b5 == BufferWriteByte(b4, 0)
    IN  IF Len(b2) - Len(b1) # Len(r.Filename)
        THEN EncodeFail(Errorf("Length of filename did not match that written to buffer"))
        ELSE IF Len(b4) - Len(b3) # Len(r.Mode)
        THEN EncodeFail(Errorf("Length of mode did not match that written to buffer"))
        ELSE EncodeOk(b5)

DataPacketEncode(h, d) ==
    LET data == At(h, d.Data)
        b1 == BinaryWriteUint16(<<>>, DataPacketOpcode)
        b2 == BinaryWriteUint16(b1, d.BlockNumber)
        b3 == BufferWrite(b2, data)
    IN  IF Len(b3) - Len(b2) # Len(data)
        THEN EncodeFail(Errorf("Length of data did not match that written to buffer"))
        ELSE EncodeOk(b3)

AckPacketEncode(a) ==
    LET b1 == BinaryWriteUint16(<<>>, AckPacketOpcode)
        b2 == BinaryWriteUint16(b1, a.BlockNumber)
    IN  EncodeOk(b2)

\* a variant of ErrorPacketEncode whose range check lets code 8 through
ErrorPacketEncodeUpTo8(e) ==
    IF e.ErrorCode > 8 \/ e.ErrorCode < 0
    THEN EncodeFail(Errorf("Invalid Error Code"))
    ELSE LET b1 == BinaryWriteUint16(<<>>, ErrorPacketOpcode)
             b2 == BinaryWriteUint16(b1, e.ErrorCode)
             b3 == BufferWrite(b2, e.ErrorMessage)
             b4 == BufferWriteByte(b3, 0)
         IN  EncodeOk(b4)

ErrorPacketEncode(e) ==
    IF e.ErrorCode > 7 \/ e.ErrorCode < 0
    THEN EncodeFail(Errorf("Invalid Error Code"))
    ELSE LET b1 == BinaryWriteUint16(<<>>, ErrorPacketOpcode)
             b2 == BinaryWriteUint16(b1, e.ErrorCode)
             b3 == BufferWrite(b2, e.ErrorMessage)
             b4 == BufferWriteByte(b3, 0)
         IN  IF Len(b3) - Len(b2) # Len(e.ErrorMessage)
             THEN EncodeFail(Errorf("Length of error message does not match that written to buffer"))
             ELSE EncodeOk(b4)

\* p.Encode() through the Packet interface
Encode(h, p) ==
    CASE p.typ = "*WriteRequestPacket" -> WriteRequestPacketEncode(p.val)
      [] p.typ = "*ReadRequestPacket"  -> ReadRequestPacketEncode(p.val)
      [] p.typ = "*DataPacket"         -> DataPacketEncode(h, p.val)
      [] p.typ = "*AckPacket"          -> AckPacketEncode(p.val)
      [] p.typ = "*ErrorPacket"        -> ErrorPacketEncode(p.val)

(***************************************************************************)
(* packets.go: Decode                                                      *)
(* packetByte is a slice of heap h; the result is (Packet, error).         *)
(***************************************************************************)
\* a variant of decodeRequest without the blank-mode check
decodeRequestBlankMode(h, reqData) ==
    LET fail(text) == [filename |-> <<>>, mode |-> <<>>, err |-> ErrorIllegalOperation(text)]
    IN  IF reqData.len < 6 THEN fail("RRQ not long enough")
        ELSE
        LET r1 == BufferReadString(At(h, SliceFrom(reqData, 2)), 0)
            r2 == BufferReadString(r1.rest, 0)
        IN  IF r1.eof THEN fail("Non 0x0 terminated Filename")
            ELSE IF Len(r1.str) < 2 THEN fail("Blank Filename")
            ELSE IF r2.eof THEN fail("Non 0x0 terminated Mode")
            ELSE [filename |-> SubSeq(r1.str, 1, Len(r1.str) - 1),
                  mode |-> SubSeq(r2.str, 1, Len(r2.str) - 1),
                  err |-> NilError]

\* decodeRequest: (filename, mode, err)
decodeRequest(h, reqData) ==
    LET fail(text) == [filename |-> <<>>, mode |-> <<>>, err |-> ErrorIllegalOperation(text)]
    IN  IF reqData.len < 6 THEN fail("RRQ not long enough")
        ELSE
        LET r1 == BufferReadString(At(h, SliceFrom(reqData, 2)), 0)
            r2 == BufferReadString(r1.rest, 0)
        IN  IF r1.eof THEN fail("Non 0x0 terminated Filename")
            ELSE IF Len(r1.str) < 2 THEN fail("Blank Filename")
            ELSE IF r2.eof THEN fail("Non 0x0 terminated Mode")
            ELSE IF Len(r2.str) < 2 THEN fail("Blank Mode")
            ELSE [filename |-> SubSeq(r1.str, 1, Len(r1.str) - 1),
                  mode |-> SubSeq(r2.str, 1, Len(r2.str) - 1),
                  err |-> NilError]

\* the (*T, error) pair is returned through (Packet, error): a nil *T
\* becomes an interface value with dynamic type *T
decodeWriteRequestPacket(h, readData) ==
    LET r == decodeRequest(h, readData)
    IN  IF r.err.kind # "nil"
        THEN [pkt |-> TypedNil("*WriteRequestPacket"), err |-> r.err]
        ELSE [pkt |-> WriteRequestPacket(r.filename, r.mode), err |-> NilError]

decodeReadRequestPacket(h, readData) ==
    LET r == decodeRequest(h, readData)
    IN  IF r.err.kind # "nil"
        THEN [pkt |-> TypedNil("*ReadRequestPacket"), err |-> r.err]
        ELSE [pkt |-> ReadRequestPacket(r.filename, r.mode), err |-> NilError]

decodeDataPacket(h, dataByte) ==
    IF dataByte.len < 4
    THEN [pkt |-> TypedNil("*DataPacket"),
          err |-> ErrorIllegalOperation("Data packet too short")]
    ELSE [pkt |-> DataPacket(BigEndianUint16(At(h, SliceFrom(dataByte, 2))),
                             SliceFrom(dataByte, 4)),
          err |-> NilError]

decodeAckPacket(h, ackData) ==
    IF ackData.len # 4
    THEN [pkt |-> TypedNil("*AckPacket"),
          err |-> ErrorIllegalOperation("Invalid ACK packet length - must be 4 bytes")]
    ELSE [pkt |-> AckPacket(BigEndianUint16(At(h, SliceFrom(ackData, 2)))),
          err |-> NilError]

decodeErrorPacket(h, errorData) ==
    IF errorData.len < 5
    THEN [pkt |-> TypedNil("*ErrorPacket"),
          err |-> ErrorIllegalOperation("Invalid Error packet length - must be 5 bytes")]
    ELSE
    LET errorCode == BigEndianUint16(At(h, SliceFrom(errorData, 2)))
        \* bytes.NewBuffer(errorData): the buffer starts at the opcode
        r == BufferReadString(At(h, errorData), 0)
    IN  IF errorCode > 8 \/ errorCode < 0
        THEN [pkt |-> TypedNil("*ErrorPacket"),
              err |-> ErrorIllegalOperation("Invalid error code - must be between 0 and 7")]
        ELSE IF r.eof
        THEN [pkt |-> TypedNil("*ErrorPacket"),
              err |-> ErrorIllegalOperation("Error message not 0x0 terminated")]
        ELSE [pkt |-> ErrorPacket(errorCode, r.str), err |-> NilError]

Decode(h, packetByte) ==
    IF packetByte.len < 2
    THEN [pkt |-> NilPacket, err |-> Errorf("No data in packet")]
    ELSE
    LET opcode == BigEndianUint16(At(h, packetByte))
    IN  CASE opcode = ReadRequestPacketOpcode  -> decodeReadRequestPacket(h, packetByte)
          [] opcode = WriteRequestPacketOpcode -> decodeWriteRequestPacket(h, packetByte)
          [] opcode = DataPacketOpcode         -> decodeDataPacket(h, packetByte)
          [] opcode = AckPacketOpcode          -> decodeAckPacket(h, packetByte)
          [] opcode = ErrorPacketOpcode        -> decodeErrorPacket(h, packetByte)
          [] OTHER ->
               [pkt |-> NilPacket,
                err |-> ErrorIllegalOperation(
                    "An illegal operation was attempted: Unknown Opcode - "
                        \o ToString(opcode))]

(***************************************************************************)
(* errors package: the seven kinds and their Error() text                  *)
(***************************************************************************)
ErrorFileNotFound(file) == [kind |-> "ErrorFileNotFound", File |-> file]
ErrorAccessViolation == [kind |-> "ErrorAccessViolation"]
ErrorDiskFull == [kind |-> "ErrorDiskFull"]
ErrorIllegalOperationOf(message) == [kind |-> "ErrorIllegalOperation", Message |-> message]
ErrorUnknownTransferID(id) == [kind |-> "ErrorUnknownTransferID", TransferID |-> id]
ErrorFileExists(file) == [kind |-> "ErrorFileExists", File |-> file]
ErrorNoSuchUser(user) == [kind |-> "ErrorNoSuchUser", User |-> user]
\* an error of any other type whose Error() returns message
OtherError(message) == [kind |-> "errorString", Message |-> message]

\* "Error File Not Found - "
TextFileNotFound ==
    <<69, 114, 114, 111, 114, 32, 70, 105, 108, 101, 32, 78, 111, 116, 32, 70, 111, 117,
      110, 100, 32, 45, 32>>
\* "Error Access Violation"
TextAccessViolation ==
    <<69, 114, 114, 111, 114, 32, 65, 99, 99, 101, 115, 115, 32, 86, 105, 111, 108, 97,
      116, 105, 111, 110>>
\* "Error Disk Full"
TextDiskFull ==
    <<69, 114, 114, 111, 114, 32, 68, 105, 115, 107, 32, 70, 117, 108, 108>>
\* "Error Illegal Operation -  "
TextIllegalOperation ==
    <<69, 114, 114, 111, 114, 32, 73, 108, 108, 101, 103, 97, 108, 32, 79, 112, 101, 114,
      97, 116, 105, 111, 110, 32, 45, 32, 32>>
\* "Error Unknown Transfer ID - "
TextUnknownTransferID ==
    <<69, 114, 114, 111, 114, 32, 85, 110, 107, 110, 111, 119, 110, 32, 84, 114, 97, 110,
      115, 102, 101, 114, 32, 73, 68, 32, 45, 32>>
\* "Error File Exists: "
TextFileExists ==
    <<69, 114, 114, 111, 114, 32, 70, 105, 108, 101, 32, 69, 120, 105, 115, 116, 115, 58,
      32>>
\* "Error No Such User: "
TextNoSuchUser ==
    <<69, 114, 114, 111, 114, 32, 78, 111, 32, 83, 117, 99, 104, 32, 85, 115, 101, 114,
      58, 32>>

\* fmt.Sprintf(format + "%s", arg)
Sprintf(format, arg) == format \o arg

\* e.Error()
ErrorText(e) ==
    CASE e.kind = "ErrorFileNotFound"      -> Sprintf(TextFileNotFound, e.File)
      [] e.kind = "ErrorAccessViolation"   -> TextAccessViolation
      [] e.kind = "ErrorDiskFull"          -> TextDiskFull
      [] e.kind = "ErrorIllegalOperation"  -> Sprintf(TextIllegalOperation, e.Message)
      [] e.kind = "ErrorUnknownTransferID" -> Sprintf(TextUnknownTransferID, e.TransferID)
      [] e.kind = "ErrorFileExists"        -> Sprintf(TextFileExists, e.File)
      [] e.kind = "ErrorNoSuchUser"        -> Sprintf(TextNoSuchUser, e.User)
      [] OTHER                             -> e.Message

(***************************************************************************)
(* packets.go: ErrorToPacket (the result is a *ErrorPacket)                *)
(***************************************************************************)
\* a variant of ErrorToPacket with the codes of two kinds exchanged
ErrorToPacketExchanged(err) ==
    CASE err.kind = "ErrorFileNotFound"      -> ErrorPacket(1, ErrorText(err))
      [] err.kind = "ErrorAccessViolation"   -> ErrorPacket(2, ErrorText(err))
      [] err.kind = "ErrorDiskFull"          -> ErrorPacket(3, ErrorText(err))
      [] err.kind = "ErrorIllegalOperation"  -> ErrorPacket(4, ErrorText(err))
      [] err.kind = "ErrorUnknownTransferID" -> ErrorPacket(6, ErrorText(err))
      [] err.kind = "ErrorFileExists"        -> ErrorPacket(5, ErrorText(err))
      [] err.kind = "ErrorNoSuchUser"        -> ErrorPacket(7, ErrorText(err))
      [] OTHER                               -> ErrorPacket(0, ErrorText(err))

ErrorToPacket(err) ==
    CASE err.kind = "ErrorFileNotFound"      -> ErrorPacket(1, ErrorText(err))
      [] err.kind = "ErrorAccessViolation"   -> ErrorPacket(2, ErrorText(err))
      [] err.kind = "ErrorDiskFull"          -> ErrorPacket(3, ErrorText(err))
      [] err.kind = "ErrorIllegalOperation"  -> ErrorPacket(4, ErrorText(err))
      [] err.kind = "ErrorUnknownTransferID" -> ErrorPacket(5, ErrorText(err))
      [] err.kind = "ErrorFileExists"        -> ErrorPacket(6, ErrorText(err))
      [] err.kind = "ErrorNoSuchUser"        -> ErrorPacket(7, ErrorText(err))
      [] OTHER                               -> ErrorPacket(0, ErrorText(err))

(***************************************************************************)
(* The calls a program makes                                               *)
(***************************************************************************)
NoEncode == [buf |-> NilBytes, err |-> NilError]
NoDecode == [pkt |-> NilPacket, err |-> NilError]
NoErrorIn == [kind |-> "nil"]

\* the packet values handed to Encode; a Data packet's payload is a slice
\* of the caller's array "payload", or nil
PacketsIn ==
    {ReadRequestPacket(f, m) : f \in Strings, m \in Strings}
    \cup {WriteRequestPacket(f, m) : f \in Strings, m \in Strings}
    \cup {DataPacket(n, Slice("payload", 0, k)) : n \in BlockNumbers, k \in 0..MaxStr}
    \cup {DataPacket(n, NilBytes) : n \in BlockNumbers}
    \cup {AckPacket(n) : n \in BlockNumbers}
    \cup {ErrorPacket(c, m) : c \in ErrorCodes, m \in Strings}

\* the datagrams of at most n bytes handed to Decode
Datagrams(n) ==
    {<<>>}
    \cup {<<hi>> : hi \in OpcodeHiBytes}
    \cup {<<hi, lo>> \o body :
            hi \in OpcodeHiBytes, lo \in OpcodeLoBytes, body \in SeqsUpTo(BodyBytes, n - 2)}

\* the error values handed to ErrorToPacket
ErrorsIn ==
    {ErrorFileNotFound(s) : s \in Strings}
    \cup {ErrorAccessViolation, ErrorDiskFull}
    \cup {ErrorIllegalOperationOf(s) : s \in Strings}
    \cup {ErrorUnknownTransferID(s) : s \in Strings}
    \cup {ErrorFileExists(s) : s \in Strings}
    \cup {ErrorNoSuchUser(s) : s \in Strings}
    \cup {OtherError(s) : s \in Strings}

Init ==
    /\ op = "init"
    /\ heap = EmptyHeap
    /\ pktIn = NilPacket
    /\ encOut = NoEncode
    /\ decOut = NoDecode
    /\ errIn = NoErrorIn
    /\ e2pOut = NilPacket

\* a caller builds a packet and calls p.Encode()
CallEncode ==
    /\ op = "init"
    /\ \E p \in PacketsIn :
      \E data \in (IF p.typ = "*DataPacket"
                   THEN [1..p.val.Data.len -> BodyBytes] ELSE {<<>>}) :
        LET h == [EmptyHeap EXCEPT !.payload = data]
            r == Encode(h, p)
        IN  /\ op' = "Encode"
            /\ pktIn' = p
            /\ encOut' = [buf |-> r.buf, err |-> r.err]
            /\ heap' = [h EXCEPT !.out = r.out]
            /\ decOut' = NoDecode
            /\ errIn' = NoErrorIn
            /\ e2pOut' = NilPacket

\* the transport carries the encoded bytes to a peer, which copies them
\* into its datagram buffer and calls Decode on it
Deliver ==
    /\ op = "Encode"
    /\ encOut.err.kind = "nil"
    /\ LET h == [heap EXCEPT !.rx = At(heap, encOut.buf)]
       IN  /\ heap' = h
           /\ decOut' = Decode(h, Slice("rx", 0, Len(h.rx)))
    /\ op' = "Deliver"
    /\ UNCHANGED <<pktIn, encOut, errIn, e2pOut>>

\* a datagram of at most n bytes arrives and Decode is called on it
Receive(n) ==
    /\ op = "init"
    /\ \E b \in Datagrams(n) :
      LET h == [EmptyHeap EXCEPT !.rx = b]
      IN  /\ op' = "Decode"
          /\ heap' = h
          /\ decOut' = Decode(h, Slice("rx", 0, Len(b)))
          /\ pktIn' = NilPacket
          /\ encOut' = NoEncode
          /\ errIn' = NoErrorIn
          /\ e2pOut' = NilPacket

CallDecode == Receive(MaxBuf)

\* a caller converts an error with ErrorToPacket(err)
CallErrorToPacket ==
    /\ op = "init"
    /\ \E e \in ErrorsIn :
      /\ op' = "ErrorToPacket"
      /\ errIn' = e
      /\ e2pOut' = ErrorToPacket(e)
      /\ heap' = EmptyHeap
      /\ pktIn' = NilPacket
      /\ encOut' = NoEncode
      /\ decOut' = NoDecode

\* the caller is done with the results of a call; the codec keeps no state
\* between calls
Return ==
    /\ op # "init"
    /\ op' = "init"
    /\ heap' = EmptyHeap
    /\ pktIn' = NilPacket
    /\ encOut' = NoEncode
    /\ decOut' = NoDecode
    /\ errIn' = NoErrorIn
    /\ e2pOut' = NilPacket

Next == CallEncode \/ Deliver \/ CallDecode \/ CallErrorToPacket \/ Return

Spec == Init /\ [][Next]_vars

\* the caller of Decode writes a byte of its datagram buffer, as when the
\* buffer receives the next datagram
Reuse ==
    /\ op = "Decode"
    /\ \E i \in 1..Len(heap.rx) : \E v \in BodyBytes :
         /\ v # heap.rx[i]
         /\ heap' = [heap EXCEPT !.rx[i] = v]
    /\ op' = "Reuse"
    /\ UNCHANGED <<pktIn, encOut, decOut, errIn, e2pOut>>

ReceiveSmall == Receive(MaxRx)

NextReuse == ReceiveSmall \/ Reuse \/ Return

SpecReuse == Init /\ [][NextReuse]_vars

(***************************************************************************)
(* Vocabulary of the properties                                            *)
(***************************************************************************)
\* Decode has just returned
Decoded == op \in {"Decode", "Deliver"}

\* the datagram Decode was called on
Rx == heap.rx

\* the opcode field of the datagram, -1 when it has none
RxOpcode == IF Len(Rx) < 2 THEN -1 ELSE Rx[1] * 256 + Rx[2]

\* the error-code field of an Error datagram of 4 bytes or more
RxErrorCode == Rx[3] * 256 + Rx[4]

NulFree(s) == \A i \in 1..Len(s) : s[i] # 0

IsUint8(x) == x \in 0..255

\* the packets whose fields satisfy the data model's invariants
ValidPacket(p) ==
    CASE p.typ \in {"*ReadRequestPacket", "*WriteRequestPacket"} ->
           /\ Len(p.val.Filename) > 0 /\ NulFree(p.val.Filename)
           /\ Len(p.val.Mode) > 0 /\ NulFree(p.val.Mode)
      [] p.typ = "*ErrorPacket" ->
           p.val.ErrorCode \in 0..7 /\ NulFree(p.val.ErrorMessage)
      [] OTHER -> TRUE

\* p and q are packets of the same variant with equal fields
SamePacket(h, p, q) ==
    /\ p.typ = q.typ
    /\ p.ptr = "addr" /\ q.ptr = "addr"
    /\ p.val.Filename = q.val.Filename
    /\ p.val.Mode = q.val.Mode
    /\ p.val.BlockNumber = q.val.BlockNumber
    /\ At(h, p.val.Data) = At(h, q.val.Data)
    /\ p.val.ErrorCode = q.val.ErrorCode
    /\ p.val.ErrorMessage = q.val.ErrorMessage

\* b[from..] starts with the bytes of s
HasAt(b, from, s) ==
    /\ Len(b) >= from + Len(s) - 1
    /\ \A i \in 1..Len(s) : b[from + i - 1] = s[i]

\* i and j are the places of the terminators of a non-empty filename and a
\* non-empty mode that follow the opcode of b
Framed(b, i, j) ==
    /\ i >= 4 /\ j >= i + 2 /\ j <= Len(b)
    /\ b[i] = 0 /\ b[j] = 0
    /\ \A k \in 3..(j - 1) : k # i => b[k] # 0

WellFramed(b) == Len(b) >= 6 /\ \E i \in 4..Len(b) : \E j \in (i + 2)..Len(b) : Framed(b, i, j)

(***************************************************************************)
(* C1. Round trip: for every valid packet value P of each of the five      *)
(* variants, Encode(P) succeeds and Decode of the encoded bytes succeeds   *)
(* and returns a packet of the same variant with fields equal to P's.      *)
(***************************************************************************)
C1_RoundTrip ==
    /\ (op = "Encode" /\ ValidPacket(pktIn)) => encOut.err.kind = "nil"
    /\ (op = "Deliver" /\ ValidPacket(pktIn)) =>
          /\ decOut.err.kind = "nil"
          /\ SamePacket(heap, decOut.pkt, pktIn)

(***************************************************************************)
(* C2. Encode produces exactly the specified byte layout, 16-bit fields    *)
(* big-endian: requests [00 opcode][filename][00][mode][00]; Data          *)
(* [00 03][blocknumber:2][payload]; Ack [00 04][blocknumber:2], always 4   *)
(* bytes; Error with code in 0..7 [00 05][errorcode:2][message][00]; the   *)
(* output length is the sum of the parts.                                  *)
(***************************************************************************)
C2_EncodeLayout ==
    (op = "Encode" /\ (pktIn.typ = "*ErrorPacket" => pktIn.val.ErrorCode \in 0..7)) =>
      LET b == At(heap, encOut.buf)
          p == pktIn.val
          data == At(heap, p.Data)
      IN  /\ encOut.err.kind = "nil"
          /\ \A i \in 1..Len(b) : IsUint8(b[i])
          /\ Len(b) >= 2 /\ b[1] = 0
          /\ CASE pktIn.typ \in {"*ReadRequestPacket", "*WriteRequestPacket"} ->
                    /\ b[2] = (IF pktIn.typ = "*ReadRequestPacket" THEN 1 ELSE 2)
                    /\ Len(b) = 2 + Len(p.Filename) + 1 + Len(p.Mode) + 1
                    /\ HasAt(b, 3, p.Filename)
                    /\ b[3 + Len(p.Filename)] = 0
                    /\ HasAt(b, 4 + Len(p.Filename), p.Mode)
                    /\ b[Len(b)] = 0
               [] pktIn.typ = "*DataPacket" ->
                    /\ b[2] = 3
                    /\ Len(b) = 4 + Len(data)
                    /\ b[3] * 256 + b[4] = p.BlockNumber
                    /\ HasAt(b, 5, data)
               [] pktIn.typ = "*AckPacket" ->
                    /\ b[2] = 4
                    /\ Len(b) = 4
                    /\ b[3] * 256 + b[4] = p.BlockNumber
               [] pktIn.typ = "*ErrorPacket" ->
                    /\ b[2] = 5
                    /\ Len(b) = 4 + Len(p.ErrorMessage) + 1
                    /\ b[3] * 256 + b[4] = p.ErrorCode
                    /\ HasAt(b, 5, p.ErrorMessage)
                    /\ b[Len(b)] = 0

\* a Data packet whose block number fills the high byte, with a payload
C2_Witness ==
    /\ op = "Encode"
    /\ pktIn.typ = "*DataPacket"
    /\ pktIn.val.BlockNumber = 256
    /\ At(heap, encOut.buf) = <<0, 3, 1, 0, 84, 8>>

(***************************************************************************)
(* C3. Every Decode rejection is an Illegal-Operation-kind error: a buffer *)
(* shorter than 2 bytes; an opcode not in 1..5; a request missing a        *)
(* terminator or with an empty filename or mode; an Ack whose length is    *)
(* not 4; a Data buffer shorter than 4; an Error buffer shorter than 5; an *)
(* Error buffer whose message has no 0x00 terminator.                      *)
(***************************************************************************)
C3_RejectsAreIllegalOperation ==
    (/\ Decoded
     /\ \/ Len(Rx) < 2
        \/ RxOpcode \notin 1..5
        \/ RxOpcode \in {1, 2} /\ ~WellFramed(Rx)
        \/ RxOpcode = 4 /\ Len(Rx) # 4
        \/ RxOpcode = 3 /\ Len(Rx) < 4
        \/ RxOpcode = 5 /\ Len(Rx) < 5
        \/ RxOpcode = 5 /\ Len(Rx) >= 5 /\ \A i \in 5..Len(Rx) : Rx[i] # 0)
    => decOut.err.kind = "ErrorIllegalOperation"

(***************************************************************************)
(* C4. Error decoding yields the logical message: for a buffer of length   *)
(* >= 5 with opcode 5, an error code in range and a 0x00 at some offset    *)
(* >= 4, Decode returns an Error packet whose ErrorCode is the big-endian  *)
(* value of bytes[2:4] and whose Message is the bytes from offset 4 up to, *)
(* not including, the first 0x00 at or after offset 4.                     *)
(***************************************************************************)
C4_ErrorMessage ==
    (/\ Decoded
     /\ RxOpcode = 5 /\ Len(Rx) >= 5
     /\ RxErrorCode \in 0..7
     /\ \E i \in 5..Len(Rx) : Rx[i] = 0)
    => LET t == CHOOSE i \in 5..Len(Rx) : Rx[i] = 0 /\ \A k \in 5..(i - 1) : Rx[k] # 0
       IN  /\ decOut.err.kind = "nil"
           /\ decOut.pkt.typ = "*ErrorPacket"
           /\ decOut.pkt.ptr = "addr"
           /\ decOut.pkt.val.ErrorCode = RxErrorCode
           /\ decOut.pkt.val.ErrorMessage = SubSeq(Rx, 5, t - 1)

(***************************************************************************)
(* C5. ErrorToPacket is total: it returns an Error packet for every error  *)
(* value; the seven kinds map to codes 1..7 with the kind's formatted text *)
(* as message, every other error maps to code 0 with its own message; the  *)
(* code is always in 0..7.                                                 *)
(***************************************************************************)
C5_ErrorToPacket ==
    op = "ErrorToPacket" =>
      /\ e2pOut.typ = "*ErrorPacket"
      /\ e2pOut.ptr = "addr"
      /\ e2pOut.val.ErrorCode \in 0..7
      /\ e2pOut.val.ErrorCode =
           (CASE errIn.kind = "ErrorFileNotFound"      -> 1
              [] errIn.kind = "ErrorAccessViolation"   -> 2
              [] errIn.kind = "ErrorDiskFull"          -> 3
              [] errIn.kind = "ErrorIllegalOperation"  -> 4
              [] errIn.kind = "ErrorUnknownTransferID" -> 5
              [] errIn.kind = "ErrorFileExists"        -> 6
              [] errIn.kind = "ErrorNoSuchUser"        -> 7
              [] OTHER                                 -> 0)
      /\ e2pOut.val.ErrorMessage = ErrorText(errIn)
      /\ errIn.kind = "errorString" => e2pOut.val.ErrorMessage = errIn.Message
      /\ errIn.kind = "ErrorFileExists" =>
           /\ HasAt(e2pOut.val.ErrorMessage, 1, TextFileExists)
           /\ HasAt(e2pOut.val.ErrorMessage, Len(TextFileExists) + 1, errIn.File)
           /\ Len(e2pOut.val.ErrorMessage) = Len(TextFileExists) + Len(errIn.File)

\* a FileExists error that names a file
C5_Witness ==
    /\ op = "ErrorToPacket"
    /\ errIn.kind = "ErrorFileExists"
    /\ errIn.File = <<84, 8>>
    /\ e2pOut.val.ErrorCode = 6

(***************************************************************************)
(* C6. Encode fails only for an out-of-range error code and never returns  *)
(* partial output: ErrorPacket.Encode returns an error and a nil buffer    *)
(* exactly when ErrorCode > 7; the other variants always succeed; every    *)
(* call returns exactly one of a buffer and an error.                      *)
(***************************************************************************)
C6_EncodeFailure ==
    op = "Encode" =>
      /\ encOut.err.kind # "nil" <=> (pktIn.typ = "*ErrorPacket" /\ pktIn.val.ErrorCode > 7)
      /\ encOut.err.kind # "nil" => encOut.buf = NilBytes
      /\ encOut.err.kind = "nil" => (encOut.buf.arr = "out" /\ encOut.buf.len >= 4)

\* an Error packet with the first code past the range
C6_Witness ==
    /\ op = "Encode"
    /\ pktIn.typ = "*ErrorPacket"
    /\ pktIn.val.ErrorCode = 8
    /\ encOut.err.kind = "errorString"
    /\ encOut.buf = NilBytes

(***************************************************************************)
(* C7. Decode is total and returns no partial result: for every byte       *)
(* sequence it returns either a packet and no error, or an error and a     *)
(* nil packet, so a caller testing the packet for absence sees none.       *)
(***************************************************************************)
C7_DecodeTotal ==
    Decoded =>
      \/ decOut.err.kind = "nil" /\ ~IsNilInterface(decOut.pkt) /\ decOut.pkt.ptr = "addr"
      \/ decOut.err.kind # "nil" /\ IsNilInterface(decOut.pkt)

(***************************************************************************)
(* C8. Request decoding accepts exactly the well-framed buffers and        *)
(* ignores trailing bytes: for opcode 1 or 2 Decode succeeds iff the       *)
(* buffer has length >= 6 and holds a non-empty NUL-terminated filename    *)
(* then a non-empty NUL-terminated mode; Filename and Mode are the bytes   *)
(* before the terminators, the variant matches the opcode, and bytes after *)
(* the second terminator do not change the result.                         *)
(***************************************************************************)
C8_RequestDecoding ==
    (Decoded /\ RxOpcode \in {1, 2}) =>
      /\ decOut.err.kind = "nil" <=> WellFramed(Rx)
      /\ \A i \in 4..Len(Rx) : \A j \in (i + 2)..Len(Rx) :
           Framed(Rx, i, j) =>
             /\ decOut.pkt.ptr = "addr"
             /\ decOut.pkt.typ =
                  (IF RxOpcode = 1 THEN "*ReadRequestPacket" ELSE "*WriteRequestPacket")
             /\ decOut.pkt.val.Filename = SubSeq(Rx, 3, i - 1)
             /\ decOut.pkt.val.Mode = SubSeq(Rx, i + 1, j - 1)
             /\ decOut.pkt.val = [NoFields EXCEPT !.Filename = SubSeq(Rx, 3, i - 1),
                                                  !.Mode = SubSeq(Rx, i + 1, j - 1)]
             /\ Decode([heap EXCEPT !.rx = SubSeq(Rx, 1, j)], Slice("rx", 0, j)) = decOut

\* a write request followed by a byte after the mode's terminator
C8_Witness ==
    /\ op = "Decode"
    /\ Rx = <<0, 2, 84, 0, 8, 0, 1>>
    /\ decOut.err.kind = "nil"
    /\ decOut.pkt.typ = "*WriteRequestPacket"
    /\ decOut.pkt.val.Filename = <<84>>
    /\ decOut.pkt.val.Mode = <<8>>

(***************************************************************************)
(* C9. Decode enforces the error-code range of Encode: an opcode-5 buffer  *)
(* whose error-code field is outside 0..7 fails with an Illegal Operation  *)
(* error, so every Error packet Decode returns has ErrorCode in 0..7 and   *)
(* is accepted by ErrorPacket.Encode.                                      *)
(***************************************************************************)
C9_DecodeErrorCodeRange ==
    /\ (Decoded /\ RxOpcode = 5 /\ Len(Rx) >= 5 /\ RxErrorCode \notin 0..7) =>
          decOut.err.kind = "ErrorIllegalOperation"
    /\ (Decoded /\ decOut.err.kind = "nil" /\ decOut.pkt.typ = "*ErrorPacket") =>
          /\ decOut.pkt.val.ErrorCode \in 0..7
          /\ Encode(heap, decOut.pkt).err.kind = "nil"

(***************************************************************************)
(* C10. A decoded packet shares no mutable state with the input buffer:    *)
(* Decode leaves its input as it was, and overwriting the input buffer     *)
(* after Decode returned changes no field of the returned packet, in       *)
(* particular not the payload of a Data packet.                            *)
(***************************************************************************)
C10_NoSharedState ==
    [][op' = "Reuse" =>
         /\ decOut'.pkt = decOut.pkt
         /\ At(heap', decOut'.pkt.val.Data) = At(heap, decOut.pkt.val.Data)]_vars

====
